---- MODULE Spec2Model ----
(***************************************************************************)
(* Model of python-api/app.py: a Flask service that reads one connection   *)
(* descriptor from the environment at import time, optionally builds a     *)
(* Redis client from it, and serves the routes /, /health and /counter.    *)
(*                                                                         *)
(* Python strings are sequences of one-character strings, so that          *)
(* str.replace, str.split and int() are computed character by character.   *)
(***************************************************************************)
EXTENDS Integers, Sequences, FiniteSets, TLC

VARIABLES
    pc,                \* "import" before the module body ran, "serving" after, "crashed" if it raised
    redis_connection,  \* app.py:13, the descriptor read from the environment (None or a string)
    redis_client,      \* app.py:14/20, None or the client object
    remote,            \* value of the key 'python-counter' in the cache
    remote0,           \* history: value of the key when the process started
    inflight,          \* per worker thread: the /counter request it is executing, if any
    responses,         \* history: the HTTP responses sent, in order of completion
    started,           \* history: number of requests accepted so far
    ops,               \* history: number of commands sent through redis_client
    overlap            \* history: TRUE once two /counter requests were in progress together

vars == <<pc, redis_connection, redis_client, remote, remote0,
          inflight, responses, started, ops, overlap>>

\* Python's None
None == [kind |-> "None"]
\* A Python str, as the sequence of its characters
Str(chars) == [kind |-> "str", chars |-> chars]

-----------------------------------------------------------------------------
(* Bounds *)

\* longest descriptor, in tokens, that the parsing specification enumerates
MaxTokens == 4
\* number of HTTP requests accepted in one run
MaxCalls == 3
\* number of worker threads serving requests concurrently
MaxThreads == 2

-----------------------------------------------------------------------------
(* Python string primitives *)

Digits == {"0", "1", "2", "3", "4", "5", "6", "7", "8", "9"}
Whitespace == {" "}

DigitVal(ch) ==
    CASE ch = "0" -> 0 [] ch = "1" -> 1 [] ch = "2" -> 2 [] ch = "3" -> 3 [] ch = "4" -> 4
      [] ch = "5" -> 5 [] ch = "6" -> 6 [] ch = "7" -> 7 [] ch = "8" -> 8 [] ch = "9" -> 9

RECURSIVE Flatten(_)
Flatten(ts) == IF ts = <<>> THEN <<>> ELSE Head(ts) \o Flatten(Tail(ts))

StartsWith(s, p) == Len(s) >= Len(p) /\ SubSeq(s, 1, Len(p)) = p

\* str.replace(old, ''): every non-overlapping occurrence, scanning left to
\* right once; the result is not scanned again.
RECURSIVE Remove(_, _)
Remove(s, old) ==
    IF s = <<>> THEN <<>>
    ELSE IF StartsWith(s, old) THEN Remove(SubSeq(s, Len(old) + 1, Len(s)), old)
    ELSE <<Head(s)>> \o Remove(Tail(s), old)

\* str.split(sep) for a one-character sep: a list of Count(sep) + 1 parts.
RECURSIVE SplitAcc(_, _, _)
SplitAcc(s, sep, cur) ==
    IF s = <<>> THEN <<cur>>
    ELSE IF Head(s) = sep THEN <<cur>> \o SplitAcc(Tail(s), sep, <<>>)
    ELSE SplitAcc(Tail(s), sep, Append(cur, Head(s)))

Split(s, sep) == SplitAcc(s, sep, <<>>)

\* str.strip() as int() applies it: leading and trailing whitespace.
RECURSIVE LStrip(_)
LStrip(s) == IF s # <<>> /\ Head(s) \in Whitespace THEN LStrip(Tail(s)) ELSE s

RECURSIVE RStrip(_)
RStrip(s) ==
    IF s # <<>> /\ s[Len(s)] \in Whitespace THEN RStrip(SubSeq(s, 1, Len(s) - 1)) ELSE s

\* The digit part of an int() literal: digits, single underscores only
\* between digits.
DigitsOk(s) ==
    /\ s # <<>>
    /\ \A i \in 1..Len(s) : s[i] \in Digits \cup {"_"}
    /\ s[1] \in Digits
    /\ s[Len(s)] \in Digits
    /\ \A i \in 1..(Len(s) - 1) : ~(s[i] = "_" /\ s[i + 1] = "_")

RECURSIVE DigitsValue(_, _)
DigitsValue(s, acc) ==
    IF s = <<>> THEN acc
    ELSE IF Head(s) = "_" THEN DigitsValue(Tail(s), acc)
    ELSE DigitsValue(Tail(s), 10 * acc + DigitVal(Head(s)))

\* int(text): [exc |-> "none", val |-> n] or [exc |-> "ValueError"].
PyInt(text) ==
    LET t == RStrip(LStrip(text))
        neg == t # <<>> /\ Head(t) = "-"
        body == IF t # <<>> /\ Head(t) \in {"-", "+"} THEN Tail(t) ELSE t
    IN IF DigitsOk(body)
       THEN [exc |-> "none", val |-> IF neg THEN 0 - DigitsValue(body, 0) ELSE DigitsValue(body, 0)]
       ELSE [exc |-> "ValueError"]

-----------------------------------------------------------------------------
(* Startup: app.py lines 13-22 *)

TcpScheme == <<"t", "c", "p", ":", "/", "/">>

\* redis.Redis(host=..., port=..., decode_responses=True): the constructor
\* opens no connection and validates neither argument.
Redis(host, port) == [host |-> host, port |-> port, decode_responses |-> TRUE]

\* Connect without line 19's replace('tcp://', '').
ConnectNoStrip(conn) ==
    LET parts == Split(conn.chars, ":")
    IN IF Len(parts) # 2 THEN [exc |-> "ValueError"]
       ELSE LET p == PyInt(parts[2])
            IN IF p.exc # "none" THEN [exc |-> p.exc]
               ELSE [exc |-> "none", client |-> Redis(parts[1], p.val)]

\* Connect stripping redis:// as well as tcp://.
ConnectAnyScheme(conn) ==
    LET parts == Split(Remove(Remove(conn.chars, TcpScheme),
                              <<"r", "e", "d", "i", "s", ":", "/", "/">>), ":")
    IN IF Len(parts) # 2 THEN [exc |-> "ValueError"]
       ELSE LET p == PyInt(parts[2])
            IN IF p.exc # "none" THEN [exc |-> p.exc]
               ELSE [exc |-> "none", client |-> Redis(parts[1], p.val)]

\* Lines 19-20, the body of the try block.
Connect(conn) ==
    LET parts == Split(Remove(conn.chars, TcpScheme), ":")
    IN IF Len(parts) # 2 THEN [exc |-> "ValueError"]          \* host, port = ... cannot unpack
       ELSE LET p == PyInt(parts[2])
            IN IF p.exc # "none" THEN [exc |-> p.exc]          \* int(port) raised
               ELSE [exc |-> "none", client |-> Redis(parts[1], p.val)]

\* A startup handler written as except TypeError.
StartupCatchesTypeError(exc) == exc \in {"TypeError"}

\* except Exception (line 21): the classes the startup handler catches.
StartupCatches(exc) == exc \in {"ValueError", "TypeError", "Exception"}

\* if redis_connection: (line 16) -- None and '' are falsy.
Truthy(conn) == conn # None /\ conn # Str(<<>>)

Startup ==
    /\ pc = "import"
    /\ LET r == IF Truthy(redis_connection) THEN Connect(redis_connection)
                ELSE [exc |-> "skipped"]
       IN \/ /\ r.exc = "none"
             /\ redis_client' = r.client
             /\ pc' = "serving"
          \/ /\ r.exc = "skipped"
             /\ redis_client' = redis_client
             /\ pc' = "serving"
          \/ /\ r.exc \notin {"none", "skipped"}
             /\ redis_client' = redis_client
             /\ pc' = IF StartupCatches(r.exc) THEN "serving" ELSE "crashed"
    /\ UNCHANGED <<redis_connection, remote, remote0, inflight, responses,
                   started, ops, overlap>>

-----------------------------------------------------------------------------
(* The cache and the network, as redis_client.incr sees them (line 40) *)

\* Values of the key 'python-counter' in the cache: no key, a string holding
\* an integer, a string holding the largest 64-bit integer (kept symbolic),
\* or a value INCR cannot work on (a non-numeric string, a list, ...).
Absent == [kind |-> "absent"]
IntVal(n) == [kind |-> "int", val |-> n]
Int64Max == [kind |-> "int64max"]
WrongType == [kind |-> "wrongtype"]

\* The network between the process and the cache during one call:
\* "up": the command reaches the cache and its reply reaches the client.
\* "refused": the connection is refused (ConnectionError), nothing is sent.
\* "timeout": the command never reaches the cache (TimeoutError).
\* "lost_reply": the cache executes the command, the reply is lost and the
\*               client times out (TimeoutError).
\* "protocol": the peer answers with bytes the client cannot parse
\*             (InvalidResponse); no Redis command is executed.
Links == {"up", "refused", "timeout", "lost_reply", "protocol"}

\* INCR key, executed atomically by the cache on the value v of the key:
\* the reply, and the value the key holds afterwards.
Incr(v) ==
    IF v = Absent THEN [exc |-> "none", val |-> 1, new |-> IntVal(1)]
    ELSE IF v = WrongType \/ v = Int64Max
         THEN [exc |-> "ResponseError", val |-> 0, new |-> v]
    ELSE [exc |-> "none", val |-> v.val + 1, new |-> IntVal(v.val + 1)]

\* The call written as redis_client.incr('python-counter', 2).
IncrCallByTwo(l, v) ==
    LET once == Incr(v)
        twice == IF once.exc = "none" THEN Incr(once.new) ELSE once
    IN CASE l = "up"         -> twice
         [] l = "lost_reply" -> [exc |-> "TimeoutError", val |-> 0, new |-> twice.new]
         [] l = "refused"    -> [exc |-> "ConnectionError", val |-> 0, new |-> v]
         [] l = "timeout"    -> [exc |-> "TimeoutError", val |-> 0, new |-> v]
         [] l = "protocol"   -> [exc |-> "InvalidResponse", val |-> 0, new |-> v]

\* redis_client.incr('python-counter') over the link l, the key holding v:
\* what the call returns or raises, and what the key holds afterwards.
IncrCall(l, v) ==
    CASE l = "up"         -> Incr(v)
      [] l = "lost_reply" -> [exc |-> "TimeoutError", val |-> 0, new |-> Incr(v).new]
      [] l = "refused"    -> [exc |-> "ConnectionError", val |-> 0, new |-> v]
      [] l = "timeout"    -> [exc |-> "TimeoutError", val |-> 0, new |-> v]
      [] l = "protocol"   -> [exc |-> "InvalidResponse", val |-> 0, new |-> v]

-----------------------------------------------------------------------------
(* Routes: app.py lines 24-44 *)

Threads == 1..MaxThreads
Idle == [state |-> "idle"]

\* jsonify(...) returned by a view: Flask answers 200 with that body.
\* The history fields: call, the request's number in order of arrival;
\* via, the network state its INCR met ("none": no command was sent); exc,
\* what the INCR raised; applied, how many increments it made in the cache.
Ok(route, body, n, applied, via, exc) ==
    [route |-> route, status |-> 200, body |-> body, call |-> n,
     applied |-> applied, via |-> via, exc |-> exc]

\* An exception leaving a view: Flask answers 500.
ServerError(route, n, applied, via, exc) ==
    [route |-> route, status |-> 500, body |-> "Internal Server Error", call |-> n,
     applied |-> applied, via |-> via, exc |-> exc]

HomeBody == [message |-> "Hello from Python Flask API!",
             managed_by |-> "Aspire",
             conference |-> "Swetugg Stockholm 2026"]

HealthBody == [status |-> "healthy"]

NoRedisBody == [counter |-> 0, source |-> "no-redis"]

RedisBody(count) == [counter |-> count, source |-> "redis"]

\* Lines 24-30.
home ==
    /\ pc = "serving"
    /\ started < MaxCalls
    /\ started' = started + 1
    /\ responses' = Append(responses, Ok("/", HomeBody, started + 1, 0, "none", "none"))
    /\ UNCHANGED <<pc, redis_connection, redis_client, remote, remote0,
                   inflight, ops, overlap>>

\* health written as a readiness probe: 503 without a cache handle.
health_readiness ==
    /\ pc = "serving"
    /\ started < MaxCalls
    /\ started' = started + 1
    /\ responses' = Append(responses,
          IF redis_client = None
          THEN [route |-> "/health", status |-> 503, body |-> [status |-> "unhealthy"],
                call |-> started + 1, applied |-> 0, via |-> "none", exc |-> "none"]
          ELSE Ok("/health", HealthBody, started + 1, 0, "none", "none"))
    /\ UNCHANGED <<pc, redis_connection, redis_client, remote, remote0,
                   inflight, ops, overlap>>

\* Lines 32-34.
health ==
    /\ pc = "serving"
    /\ started < MaxCalls
    /\ started' = started + 1
    /\ responses' = Append(responses, Ok("/health", HealthBody, started + 1, 0, "none", "none"))
    /\ UNCHANGED <<pc, redis_connection, redis_client, remote, remote0,
                   inflight, ops, overlap>>

\* A handler written as except redis.ConnectionError.
CounterCatchesConnectionError(exc) == exc = "ConnectionError"

\* The bare except: of line 42 catches every exception class.
CounterCatches(exc) == TRUE

\* counter_call sending the INCR a second time when the first attempt raised a
\* network error.
counter_call_retry(t, l) ==
    /\ pc = "serving"
    /\ started < MaxCalls
    /\ inflight[t] = Idle
    /\ started' = started + 1
    /\ IF redis_client = None
       THEN /\ responses' = Append(responses,
                                   Ok("/counter", NoRedisBody, started + 1, 0, "none", "none"))
            /\ UNCHANGED <<remote, inflight, ops, overlap>>
       ELSE LET first == IncrCall(l, remote)
                again == first.exc \in {"ConnectionError", "TimeoutError"}
                r == IF again THEN IncrCall(l, first.new) ELSE first
            IN /\ remote' = r.new
               /\ ops' = ops + (IF again THEN 2 ELSE 1)
               /\ inflight' = [inflight EXCEPT ![t] =
                                 [state |-> "called", exc |-> r.exc, count |-> r.val,
                                  call |-> started + 1, via |-> l,
                                  applied |-> (IF first.new = remote THEN 0 ELSE 1)
                                            + (IF r.new = first.new THEN 0 ELSE 1)]]
               /\ overlap' = (overlap \/ \E u \in Threads \ {t} : inflight[u] # Idle)
               /\ UNCHANGED responses
    /\ UNCHANGED <<pc, redis_connection, redis_client, remote0>>

\* counter_call without the test of line 38, using the handle or a default
\* client (redis_client or redis.Redis()).
counter_call_default_client(t, l) ==
    /\ pc = "serving"
    /\ started < MaxCalls
    /\ inflight[t] = Idle
    /\ started' = started + 1
    /\ LET r == IncrCall(l, remote)
       IN /\ remote' = r.new
          /\ ops' = ops + 1
          /\ inflight' = [inflight EXCEPT ![t] =
                            [state |-> "called", exc |-> r.exc, count |-> r.val,
                             call |-> started + 1, via |-> l,
                             applied |-> IF r.new = remote THEN 0 ELSE 1]]
          /\ overlap' = (overlap \/ \E u \in Threads \ {t} : inflight[u] # Idle)
          /\ UNCHANGED responses
    /\ UNCHANGED <<pc, redis_connection, redis_client, remote0>>

\* counter_call incrementing in the process: GET, add one, SET. A request
\* that starts while another one is between its GET and its SET reads the
\* value the other one read, and both write the same result.
counter_call_get_set(t, l) ==
    /\ pc = "serving"
    /\ started < MaxCalls
    /\ inflight[t] = Idle
    /\ started' = started + 1
    /\ IF redis_client = None
       THEN /\ responses' = Append(responses,
                                   Ok("/counter", NoRedisBody, started + 1, 0, "none", "none"))
            /\ UNCHANGED <<remote, inflight, ops, overlap>>
       ELSE LET r == IncrCall(l, remote)
                racing == {u \in Threads \ {t} : inflight[u] # Idle /\ inflight[u].exc = "none"}
                stale == r.exc = "none" /\ racing # {}
                seen == inflight[CHOOSE u \in racing : TRUE].count
            IN /\ remote' = IF stale THEN IntVal(seen) ELSE r.new
               /\ ops' = ops + 1
               /\ inflight' = [inflight EXCEPT ![t] =
                                 [state |-> "called", exc |-> r.exc,
                                  count |-> IF stale THEN seen ELSE r.val,
                                  call |-> started + 1, via |-> l,
                                  applied |-> IF stale \/ r.new = remote THEN 0 ELSE 1]]
               /\ overlap' = (overlap \/ \E u \in Threads \ {t} : inflight[u] # Idle)
               /\ UNCHANGED responses
    /\ UNCHANGED <<pc, redis_connection, redis_client, remote0>>

\* Lines 38-40 (and 44 when the handle is falsy): thread t takes a /counter
\* request; with a handle it sends INCR over the network, which is in state l
\* for this call, and the cache executes it atomically.
counter_call(t, l) ==
    /\ pc = "serving"
    /\ started < MaxCalls
    /\ inflight[t] = Idle
    /\ started' = started + 1
    /\ IF redis_client = None
       THEN /\ responses' = Append(responses,
                                   Ok("/counter", NoRedisBody, started + 1, 0, "none", "none"))
            /\ UNCHANGED <<remote, inflight, ops, overlap>>
       ELSE LET r == IncrCall(l, remote)
            IN /\ remote' = r.new
               /\ ops' = ops + 1
               /\ inflight' = [inflight EXCEPT ![t] =
                                 [state |-> "called", exc |-> r.exc, count |-> r.val,
                                  call |-> started + 1, via |-> l,
                                  applied |-> IF r.new = remote THEN 0 ELSE 1]]
               /\ overlap' = (overlap \/ \E u \in Threads \ {t} : inflight[u] # Idle)
               /\ UNCHANGED responses
    /\ UNCHANGED <<pc, redis_connection, redis_client, remote0>>

\* counter_return dropping the handle when the INCR raised.
counter_return_disabling(t) ==
    /\ pc = "serving"
    /\ inflight[t] # Idle
    /\ LET f == inflight[t]
       IN /\ responses' = Append(responses,
               IF f.exc = "none"
               THEN Ok("/counter", RedisBody(f.count), f.call, f.applied, f.via, f.exc)
               ELSE Ok("/counter", NoRedisBody, f.call, f.applied, f.via, f.exc))
          /\ redis_client' = IF f.exc = "none" THEN redis_client ELSE None
    /\ inflight' = [inflight EXCEPT ![t] = Idle]
    /\ UNCHANGED <<pc, redis_connection, remote, remote0, started, ops, overlap>>

\* Lines 41-44: the call returned or raised; thread t answers.
counter_return(t) ==
    /\ pc = "serving"
    /\ inflight[t] # Idle
    /\ LET f == inflight[t]
       IN responses' = Append(responses,
            IF f.exc = "none"
            THEN Ok("/counter", RedisBody(f.count), f.call, f.applied, f.via, f.exc)
            ELSE IF CounterCatches(f.exc)
                 THEN Ok("/counter", NoRedisBody, f.call, f.applied, f.via, f.exc)
                 ELSE ServerError("/counter", f.call, f.applied, f.via, f.exc))
    /\ inflight' = [inflight EXCEPT ![t] = Idle]
    /\ UNCHANGED <<pc, redis_connection, redis_client, remote, remote0,
                   started, ops, overlap>>

-----------------------------------------------------------------------------
(* Specifications *)

RedisScheme == <<"r", "e", "d", "i", "s", ":", "/", "/">>

\* The pieces descriptors are built from.
Tokens == {TcpScheme, RedisScheme, <<"h">>, <<":">>, <<"6">>, <<"0">>,
           <<" ">>, <<"_">>, <<"-">>}

TokenSeqs == UNION {[1..n -> Tokens] : n \in 0..MaxTokens}

\* "tcp://cache-host:6379"
ScenarioDescriptor ==
    Str(TcpScheme \o <<"c", "a", "c", "h", "e", "-", "h", "o", "s", "t", ":",
                       "6", "3", "7", "9">>)

\* Every descriptor of at most MaxTokens tokens, the unset variable, and the
\* documented example.
AllDescriptors ==
    {Str(Flatten(ts)) : ts \in TokenSeqs} \cup {None, ScenarioDescriptor}

\* Descriptors the full lifecycle is explored with.
DemoDescriptors ==
    {None,
     Str(<<>>),
     Str(Flatten(<<TcpScheme, <<"h">>, <<":">>, <<"6">>>>)),
     Str(Flatten(<<RedisScheme, <<"h">>, <<":">>, <<"6">>>>)),
     Str(Flatten(<<<<"h">>, <<":">>, <<"h">>>>))}

RemoteInit == {Absent, IntVal(0), Int64Max, WrongType}

InitWith(descriptors, remotes) ==
    /\ pc = "import"
    /\ redis_connection \in descriptors
    /\ redis_client = None
    /\ remote \in remotes
    /\ remote0 = remote
    /\ inflight = [t \in Threads |-> Idle]
    /\ responses = <<>>
    /\ started = 0
    /\ ops = 0
    /\ overlap = FALSE

Init == InitWith(DemoDescriptors, RemoteInit)

Next ==
    \/ Startup
    \/ home
    \/ health
    \/ \E t \in Threads, l \in Links : counter_call(t, l)
    \/ \E t \in Threads : counter_return(t)

Spec == Init /\ [][Next]_vars

\* Startup alone, over every bounded descriptor.
ParseInit == InitWith(AllDescriptors, {Absent})

ParseSpec == ParseInit /\ [][Startup]_vars

-----------------------------------------------------------------------------
(* Vocabulary of the properties *)

Colons(s) == Cardinality({i \in 1..Len(s) : s[i] = ":"})

IsDecimal(p) == p # <<>> /\ \A i \in 1..Len(p) : p[i] \in Digits

RECURSIVE DecimalValue(_)
DecimalValue(p) ==
    IF p = <<>> THEN 0
    ELSE 10 * DecimalValue(SubSeq(p, 1, Len(p) - 1)) + DigitVal(p[Len(p)])

\* The text after the last colon of s (s has a colon).
AfterLastColon(s) ==
    LET k == CHOOSE i \in 1..Len(s) :
                 s[i] = ":" /\ \A j \in (i + 1)..Len(s) : s[j] # ":"
    IN SubSeq(s, k + 1, Len(s))

BeforeLastColon(s) ==
    LET k == CHOOSE i \in 1..Len(s) :
                 s[i] = ":" /\ \A j \in (i + 1)..Len(s) : s[j] # ":"
    IN SubSeq(s, 1, k - 1)

\* A port that is no number: it has no digit, or a character that is
\* neither a digit nor a sign, an underscore or a blank.
NonNumeric(p) ==
    \/ \A i \in 1..Len(p) : p[i] \notin Digits
    \/ \E i \in 1..Len(p) : p[i] \notin Digits \cup {" ", "_", "-", "+"}

\* The malformed descriptors: empty, without a colon, with more than one
\* colon once every "tcp://" is taken out, or with a non-numeric port.
Malformed(conn) ==
    /\ conn # None
    /\ LET s == conn.chars
           stripped == Remove(s, TcpScheme)
       IN \/ s = <<>>
          \/ Colons(s) = 0
          \/ Colons(stripped) # 1
          \/ NonNumeric(AfterLastColon(stripped))

\* s is H:P with the colon at position k, H without a colon, P decimal.
HostPortAt(s, k) ==
    /\ s[k] = ":"
    /\ Colons(SubSeq(s, 1, k - 1)) = 0
    /\ IsDecimal(SubSeq(s, k + 1, Len(s)))

Rest(s, scheme) == SubSeq(s, Len(scheme) + 1, Len(s))

CounterIdx == {i \in 1..Len(responses) : responses[i].route = "/counter"}

IsCounter(e) == e.route = "/counter"

CounterLog == SelectSeq(responses, IsCounter)

Quiescent == \A t \in Threads : inflight[t] = Idle

-----------------------------------------------------------------------------
(* Startup properties, checked under ParseSpec *)

C7_WellFormedParses ==
    (pc = "serving" /\ redis_connection # None) =>
        LET s == redis_connection.chars
            bodies == {s} \cup (IF StartsWith(s, TcpScheme) THEN {Rest(s, TcpScheme)} ELSE {})
        IN /\ \A b \in bodies : \A k \in 1..Len(b) :
                  HostPortAt(b, k) =>
                      redis_client = [host |-> SubSeq(b, 1, k - 1),
                                      port |-> DecimalValue(SubSeq(b, k + 1, Len(b))),
                                      decode_responses |-> TRUE]
           /\ redis_connection = ScenarioDescriptor =>
                  /\ redis_client # None
                  /\ redis_client.host = <<"c", "a", "c", "h", "e", "-", "h", "o", "s", "t">>
                  /\ redis_client.port = 6379

\* Startup ran on "tcp://cache-host:6379".
C7_Witness ==
    /\ pc = "serving"
    /\ redis_connection = ScenarioDescriptor
    /\ redis_client # None

-----------------------------------------------------------------------------
(* Request properties, checked under Spec *)

\* The cache worked for every INCR sent so far.
AllUp ==
    /\ \A i \in CounterIdx : responses[i].via = "up"
    /\ \A t \in Threads : inflight[t] # Idle => inflight[t].via = "up"

\* The key started absent or at zero.
FromZero == remote0 \in {Absent, IntVal(0)}

RemoteValue == IF remote.kind = "int" THEN remote.val ELSE 0

\* C2: every /counter response has status 200, and when the handle is
\* present and the INCR raised (refused connection, timeout, unparsable
\* reply, wrong value type) the body is {"counter": 0, "source": "no-redis"}.
C2_CounterNeverErrors ==
    \A i \in CounterIdx :
        /\ responses[i].status = 200
        /\ responses[i].exc # "none" =>
               responses[i].body = [counter |-> 0, source |-> "no-redis"]

\* Three /counter requests were answered after the INCR raised, for three
\* different reasons.
C2_Witness ==
    /\ redis_client # None
    /\ Cardinality({responses[i].exc : i \in CounterIdx} \ {"none"}) >= 3

\* C3: with a handle, a cache that works, the key starting absent or zero
\* and /counter requests made one after another, the k-th /counter response
\* is {"counter": k, "source": "redis"}, and once n requests are answered the
\* key holds n.
C3_SequentialCounts ==
    (redis_client # None /\ FromZero /\ AllUp /\ ~overlap) =>
        /\ \A k \in 1..Len(CounterLog) :
               /\ CounterLog[k].status = 200
               /\ CounterLog[k].body = [counter |-> k, source |-> "redis"]
        /\ Quiescent => RemoteValue = Len(CounterLog)

\* MaxCalls sequential /counter requests were answered by a working cache.
C3_Witness ==
    /\ redis_client # None /\ FromZero /\ AllUp /\ ~overlap /\ Quiescent
    /\ Len(CounterLog) = MaxCalls

\* C4 as stated: a /counter response has source "redis" exactly when its
\* request incremented the key, once; a "no-redis" response left it as it was.
C4_SideEffectIffRedis ==
    \A i \in CounterIdx :
        /\ responses[i].body.source = "redis" => responses[i].applied = 1
        /\ responses[i].body.source = "no-redis" => responses[i].applied = 0

\* C4 amended: a "redis" response corresponds to exactly one increment; a
\* "no-redis" response left the key unchanged unless the cache executed the
\* INCR and its reply was lost, in which case the key was incremented once
\* although the response says "no-redis".
C4_SideEffectUnlessReplyLost ==
    \A i \in CounterIdx :
        LET e == responses[i]
        IN /\ e.status = 200
           /\ e.body.source = "redis" => e.applied = 1
           /\ (e.body.source = "no-redis" /\ e.via # "lost_reply") => e.applied = 0
           /\ (e.body.source = "no-redis" /\ e.via = "lost_reply") => e.applied \in {0, 1}
           /\ (e.via = "lost_reply" /\ FromZero) =>
                  (e.body.source = "no-redis" /\ e.applied = 1)

\* A request over a link that lost the reply was answered "no-redis" after
\* the key was incremented.
C4_Witness ==
    \E i \in CounterIdx :
        /\ responses[i].via = "lost_reply"
        /\ responses[i].body.source = "no-redis"
        /\ responses[i].applied = 1
        /\ remote # remote0

\* C5: with no handle, every /counter response is 200 with
\* {"counter": 0, "source": "no-redis"}, no command is sent to the cache and
\* the key keeps its value, whatever other requests are served in between.
C5_NoHandleNoCacheUse ==
    (pc = "serving" /\ redis_client = None) =>
        /\ \A i \in CounterIdx :
               /\ responses[i].status = 200
               /\ responses[i].body = [counter |-> 0, source |-> "no-redis"]
               /\ responses[i].via = "none"
               /\ responses[i].applied = 0
        /\ ops = 0
        /\ remote = remote0
        /\ Quiescent

\* Without a handle, two /counter requests were answered with another route
\* served between them.
C5_Witness ==
    /\ redis_client = None
    /\ Len(responses) = 3
    /\ responses[1].route = "/counter"
    /\ responses[2].route # "/counter"
    /\ responses[3].route = "/counter"

\* C6: a step that answers a /health request answers 200 with
\* {"status": "healthy"} and leaves the handle, the key and the number of
\* commands sent to the cache unchanged; it can be taken whatever the handle
\* and the other requests in progress.
C6_HealthAlwaysHealthy ==
    [][(Len(responses') = Len(responses) + 1
          /\ responses'[Len(responses')].route = "/health")
       => /\ responses'[Len(responses')].status = 200
          /\ responses'[Len(responses')].body = [status |-> "healthy"]
          /\ redis_client' = redis_client
          /\ remote' = remote
          /\ ops' = ops
          /\ inflight' = inflight]_vars

\* /health was answered while a /counter request whose INCR was refused was
\* still in progress.
C6_Witness ==
    /\ redis_client # None
    /\ Len(responses) >= 1
    /\ responses[Len(responses)].route = "/health"
    /\ \E t \in Threads : inflight[t] # Idle /\ inflight[t].exc = "ConnectionError"

\* C9: once startup is over no step changes redis_client.
C9_HandleDecidedOnce ==
    [][pc = "serving" => redis_client' = redis_client]_vars

\* A /counter request failed and a later one was answered from the cache by
\* the same handle.
C9_Witness ==
    /\ redis_client # None
    /\ \E i, j \in CounterIdx :
           /\ i < j
           /\ responses[i].exc # "none"
           /\ responses[i].body.source = "no-redis"
           /\ responses[j].call > responses[i].call
           /\ responses[j].body.source = "redis"

\* C10: with a handle, a cache that works and the key starting absent or
\* zero, under any interleaving no two "redis" responses carry the same
\* value, and once every request is answered the values returned are exactly
\* 1..m for the m requests and the key holds m.
C10_ConcurrentCountsDistinct ==
    (redis_client # None /\ FromZero /\ AllUp) =>
        /\ \A i, j \in CounterIdx :
               (i # j /\ responses[i].body.source = "redis"
                      /\ responses[j].body.source = "redis")
                   => responses[i].body.counter # responses[j].body.counter
        /\ Quiescent =>
               /\ \A i \in CounterIdx : responses[i].body.source = "redis"
               /\ {responses[i].body.counter : i \in CounterIdx} = 1..Cardinality(CounterIdx)
               /\ RemoteValue = Cardinality(CounterIdx)

\* Overlapping requests were all answered by a working cache, one of them
\* after a request that arrived later.
C10_Witness ==
    /\ redis_client # None /\ FromZero /\ AllUp /\ overlap /\ Quiescent
    /\ Cardinality(CounterIdx) >= 2
    /\ \E i, j \in CounterIdx :
           i < j /\ responses[i].body.counter > responses[j].body.counter

====
